---- MODULE Spec2Model ----
(***************************************************************************)
(* The two example notebooks of the repository as state machines:          *)
(*   - examples/notebooks/demand-elasticity.ipynb (the four demand         *)
(*     scenarios and the price-duration helper),                           *)
(*   - the capacity-expansion notebook (annuity, time-series sampling,     *)
(*     snapshot weightings, network construction).                         *)
(* Python floats are IEEE-754 binary64.  The index of the price-duration   *)
(* curve and the annuity factor are modelled bit-exactly; the cost table   *)
(* that feeds the network is carried in exact rationals.                   *)
(***************************************************************************)
EXTENDS Integers, Sequences, FiniteSets

VARIABLES
    notebook,         \* which notebook this kernel runs
    pc,               \* position of the next statement in its program
    error,            \* "none", or the exception that ended the run
    remote,           \* the CSV files the notebooks download
    costs,            \* the cost table (capacity-expansion notebook)
    a,                \* the annuity factors
    ts,               \* the sampled time series
    n,                \* the network: components, snapshots, weightings
    marginal_price,   \* n.buses_t.marginal_price: bus name -> price series
    generators_t_p,   \* n.generators_t.p of the fixed-capacity generators
    variable_supply,  \* power the other components deliver to the load
    p_nom_opt,        \* optimal capacity of every component that has one
    solved,           \* the network as it was handed to the last optimize
    capacities,       \* the capacities frame, column -> series
    ax,               \* the shared axes: labels of the curves drawn on them
    tsc,              \* total system cost by component
    duration          \* what the last get_price_duration call produced

frames == <<costs, a, ts, capacities, ax, tsc>>
results == <<marginal_price, generators_t_p, variable_supply, p_nom_opt, solved>>
vars == <<notebook, pc, error, remote, frames, n, results, duration>>

(***************************************************************************)
(* Bounds of the model.                                                    *)
(***************************************************************************)
MaxSeries == 30       \* longest price series handed to get_price_duration
MaxPeriod == 3        \* a price series repeats a free prefix of this length

(***************************************************************************)
(* IEEE-754 binary64 arithmetic on the values the notebooks compute.       *)
(* A natural below 2^58 is kept in two limbs, hi * W + lo.                 *)
(***************************************************************************)
MantBits == 53
W == 2^30

WInt(x) == [hi |-> x \div W, lo |-> x % W]
WZero == WInt(0)
WOne == WInt(1)
WAdd(u, v) ==
    LET s == u.lo + v.lo
    IN  [hi |-> u.hi + v.hi + (s \div W), lo |-> s % W]
WDouble(u) == WAdd(u, u)
WSub(u, v) ==
    IF u.lo >= v.lo
    THEN [hi |-> u.hi - v.hi, lo |-> u.lo - v.lo]
    ELSE [hi |-> u.hi - v.hi - 1, lo |-> (u.lo + W) - v.lo]
WLess(u, v) == u.hi < v.hi \/ (u.hi = v.hi /\ u.lo < v.lo)
WHalf(u) == [hi |-> u.hi \div 2, lo |-> (u.lo \div 2) + (u.hi % 2) * (W \div 2)]
WOdd(u) == u.lo % 2 = 1
WPow2(k) == IF k < 30 THEN [hi |-> 0, lo |-> 2^k] ELSE [hi |-> 2^(k - 30), lo |-> 0]

RECURSIVE WTimes(_, _)
WTimes(k, u) == IF k = 0 THEN WZero ELSE WAdd(u, WTimes(k - 1, u))

(* c * 2^k for a small natural c and k >= 30.                              *)
WScaled(c, k) == [hi |-> c * 2^(k - 30), lo |-> 0]

WDistance(u, v) == IF WLess(u, v) THEN WSub(v, u) ELSE WSub(u, v)

(* A non-negative double is m * 2^e with 2^52 <= m < 2^53, or zero.        *)
FlZero == [m |-> WZero, e |-> 0]

(* Round to nearest, ties to even: q is the truncated 53-bit mantissa,     *)
(* up tells whether the discarded part rounds it up.                       *)
FlRound(q, e, up) ==
    LET q1 == IF up THEN WAdd(q, WOne) ELSE q
    IN  IF q1 = WPow2(MantBits)
        THEN [m |-> WPow2(MantBits - 1), e |-> e + 1]
        ELSE [m |-> q1, e |-> e]

(* Binary long division by d: st = [q, r, k] holds the quotient bits so far, *)
(* the remainder and the number of binary places produced.  One step       *)
(* produces one more quotient bit, until the quotient has 53 bits.         *)
DivStep(st, d) ==
    IF ~WLess(st.q, WPow2(MantBits - 1)) THEN st
    ELSE LET r2 == WDouble(st.r)
             bit == ~WLess(r2, d)
         IN  [q |-> WAdd(WDouble(st.q), IF bit THEN WOne ELSE WZero),
              r |-> IF bit THEN WSub(r2, d) ELSE r2,
              k |-> st.k + 1]

DivStep4(st, d) == DivStep(DivStep(DivStep(DivStep(st, d), d), d), d)

RECURSIVE DivLoop(_, _)
DivLoop(st, d) ==
    IF ~WLess(st.q, WPow2(MantBits - 1)) THEN st
    ELSE DivLoop(DivStep4(DivStep4(st, d), d), d)

(* fl(a / d) for a positive integer a < 2^30 and a positive integer d.     *)
FlDivInt(u, d) ==
    LET q0 == IF d.hi = 0 THEN u \div d.lo ELSE 0
        r0 == IF d.hi = 0 THEN u % d.lo ELSE u
        s == DivLoop([q |-> WInt(q0), r |-> WInt(r0), k |-> 0], d)
        r2 == WDouble(s.r)
        up == WLess(d, r2) \/ (r2 = d /\ WOdd(s.q))
    IN  FlRound(s.q, 0 - s.k, up)

(* fl(a / x) for a positive integer a and a positive double x: dividing by *)
(* 2^e is exact.                                                           *)
FlDiv(u, x) ==
    LET t == FlDivInt(u, x.m)
    IN  [m |-> t.m, e |-> t.e - x.e]

(* Shift p right until it has 53 bits, keeping the guard and sticky bits.  *)
RECURSIVE FlNormalise(_, _, _, _)
FlNormalise(p, e, guard, sticky) ==
    IF WLess(p, WPow2(MantBits))
    THEN FlRound(p, e, guard /\ (sticky \/ WOdd(p)))
    ELSE FlNormalise(WHalf(p), e + 1, WOdd(p), sticky \/ guard)

(* fl(k * x) for a small natural k and a double x.                         *)
FlTimesInt(k, x) ==
    IF k = 0 \/ x.m = WZero THEN FlZero
    ELSE FlNormalise(WTimes(k, x.m), x.e, FALSE, FALSE)

FlLess(x, y) ==
    IF y.m = WZero THEN FALSE
    ELSE IF x.m = WZero THEN TRUE
    ELSE x.e < y.e \/ (x.e = y.e /\ WLess(x.m, y.m))

(* ceil(x) of a double 0 <= x < 2^30, as an integer: st = [p, k, sticky]    *)
(* shifts the mantissa p right by the k places left, sticky remembering    *)
(* whether a one was shifted out.                                          *)
CeilStep(st) ==
    IF st.k = 0 THEN st
    ELSE [p |-> WHalf(st.p), k |-> st.k - 1, sticky |-> st.sticky \/ WOdd(st.p)]

CeilStep4(st) == CeilStep(CeilStep(CeilStep(CeilStep(st))))

RECURSIVE CeilLoop(_)
CeilLoop(st) ==
    IF st.k = 0 THEN st.p.lo + (IF st.sticky THEN 1 ELSE 0)
    ELSE CeilLoop(CeilStep4(CeilStep4(st)))

FlCeil(x) ==
    IF x.m = WZero THEN 0
    ELSE CeilLoop([p |-> x.m, k |-> 0 - x.e, sticky |-> FALSE])

FlOne == [m |-> WPow2(MantBits - 1), e |-> 1 - MantBits]

(* What a float division by zero leaves in a numpy column.                 *)
FlInf == [m |-> WZero, e |-> 1]

(* p * 2^e for a natural 0 < p < 2^53, which needs no rounding.            *)
RECURSIVE FlExact(_, _)
FlExact(p, e) ==
    IF ~WLess(p, WPow2(MantBits - 1)) THEN [m |-> p, e |-> e]
    ELSE FlExact(WDouble(p), e - 1)

(* fl(p * 2^e) for a natural p.                                            *)
FlFromWide(p, e) ==
    IF p = WZero THEN FlZero
    ELSE IF WLess(p, WPow2(MantBits)) THEN FlExact(p, e)
    ELSE FlNormalise(p, e, FALSE, FALSE)

(* p shifted right by k places: guard is the last bit shifted out, sticky  *)
(* tells whether a one was shifted out before it.                          *)
RECURSIVE ShiftRight(_, _, _, _)
ShiftRight(p, k, guard, sticky) ==
    IF k = 0 THEN [p |-> p, guard |-> guard, sticky |-> sticky]
    ELSE IF p = WZero THEN [p |-> p, guard |-> FALSE, sticky |-> sticky \/ guard]
    ELSE ShiftRight(WHalf(p), k - 1, WOdd(p), sticky \/ guard)

(* fl(x + y) for doubles x, y >= 0.                                        *)
FlAdd(x, y) ==
    IF x.m = WZero THEN y
    ELSE IF y.m = WZero THEN x
    ELSE LET big == IF x.e >= y.e THEN x ELSE y
             small == IF x.e >= y.e THEN y ELSE x
             s == ShiftRight(small.m, big.e - small.e, FALSE, FALSE)
         IN  FlNormalise(WAdd(big.m, s.p), big.e, s.guard, s.sticky)

(* fl(x - y) for doubles x >= y >= 0.  The difference is formed with two   *)
(* extra places; what y has below them makes it fall short of the next     *)
(* integer by less than one.                                               *)
FlSub(x, y) ==
    IF y.m = WZero THEN x
    ELSE IF x.e - y.e = 0 THEN FlFromWide(WSub(x.m, y.m), y.e)
    ELSE IF x.e - y.e = 1 THEN FlFromWide(WSub(WDouble(x.m), y.m), y.e)
    ELSE LET s == ShiftRight(y.m, x.e - y.e - 2, FALSE, FALSE)
             d == WSub(WDouble(WDouble(x.m)), s.p)
             below == WSub(d, WOne)
         IN  IF ~(s.guard \/ s.sticky) THEN FlFromWide(d, x.e - 2)
             ELSE FlNormalise(WHalf(below), x.e - 1, WOdd(below), TRUE)

(* The least doubling of d that exceeds u.                                 *)
RECURSIVE DivScale(_, _, _)
DivScale(u, d, s) ==
    IF WLess(u, d) THEN [d |-> d, s |-> s] ELSE DivScale(u, WDouble(d), s + 1)

(* fl(u / d) for naturals u, d > 0.                                        *)
FlDivWide(u, d) ==
    LET sc == DivScale(u, d, 0)
        st == DivLoop([q |-> WZero, r |-> u, k |-> 0], sc.d)
        r2 == WDouble(st.r)
        up == WLess(sc.d, r2) \/ (r2 = sc.d /\ WOdd(st.q))
    IN  FlRound(st.q, sc.s - st.k, up)

(* fl(x / y) for doubles x >= 0, y >= 0.                                   *)
FlDivide(x, y) ==
    IF y.m = WZero THEN FlInf
    ELSE IF x.m = WZero THEN FlZero
    ELSE LET t == FlDivWide(x.m, y.m)
         IN  [m |-> t.m, e |-> t.e + x.e - y.e]

(* A double as odd * 2^e.                                                  *)
RECURSIVE OddPart(_, _)
OddPart(p, e) ==
    IF WOdd(p) THEN [m |-> p, e |-> e] ELSE OddPart(WHalf(p), e + 1)

(* acc * b^k for a small natural b, as long as it stays below 2^53.        *)
RECURSIVE WPower(_, _, _)
WPower(b, k, acc) ==
    IF k = 0 \/ b = 1 \/ ~WLess(acc, WPow2(MantBits)) THEN acc
    ELSE WPower(b, k - 1, WTimes(b, acc))

(* x ** k is exact when the k-th power of the odd part of x has at most 53 *)
(* bits; pow() then returns it unrounded.                                  *)
PowIsExact(x, k) ==
    LET o == OddPart(x.m, x.e)
    IN  o.m.hi = 0 /\ WLess(WPower(o.m.lo, k, WOne), WPow2(MantBits))

FlPow(x, k) ==
    LET o == OddPart(x.m, x.e)
    IN  FlFromWide(WPower(o.m.lo, k, WOne), o.e * k)

(* Whether two doubles are at most ulps units in the last place apart.     *)
FlWithin(x, y, ulps) ==
    LET d == IF x.e = y.e THEN WDistance(x.m, y.m)
             ELSE IF x.e = y.e + 1 THEN WDistance(WDouble(x.m), y.m)
             ELSE IF y.e = x.e + 1 THEN WDistance(WDouble(y.m), x.m)
             ELSE WPow2(MantBits)
    IN  ~WLess(WInt(ulps), d)

(***************************************************************************)
(* Exact rationals <<numerator, denominator>> for the cost data; NaN is a  *)
(* missing value and propagates through arithmetic as in pandas.           *)
(***************************************************************************)
NaN == <<0, 0>>

Abs(x) == IF x < 0 THEN 0 - x ELSE x

RECURSIVE GCD(_, _)
GCD(x, y) == IF y = 0 THEN x ELSE GCD(y, x % y)

Rat(num, den) ==
    IF den = 0 THEN NaN
    ELSE LET g == GCD(Abs(num), Abs(den))
             sign == IF den < 0 THEN -1 ELSE 1
         IN  <<sign * (num \div g), sign * (den \div g)>>

IsNaN(x) == x[2] = 0
RInt(k) == <<k, 1>>
RAdd(x, y) ==
    IF IsNaN(x) \/ IsNaN(y) THEN NaN
    ELSE LET g == GCD(x[2], y[2])
         IN  Rat(x[1] * (y[2] \div g) + y[1] * (x[2] \div g), (x[2] \div g) * y[2])
RNeg(x) == IF IsNaN(x) THEN NaN ELSE <<0 - x[1], x[2]>>
RSub(x, y) == RAdd(x, RNeg(y))
RMul(x, y) ==
    IF IsNaN(x) \/ IsNaN(y) THEN NaN
    ELSE LET g1 == GCD(Abs(x[1]), y[2])
             g2 == GCD(Abs(y[1]), x[2])
         IN  Rat((x[1] \div g1) * (y[1] \div g2), (x[2] \div g2) * (y[2] \div g1))
(* x / 0 is inf in a float column; no cost datum divides by zero, and the  *)
(* model keeps it as a missing value.                                      *)
RDiv(x, y) ==
    IF IsNaN(x) \/ IsNaN(y) \/ y[1] = 0 THEN NaN
    ELSE RMul(x, Rat(y[2], y[1]))
RLess(x, y) == x[1] * y[2] < y[1] * x[2]

RECURSIVE RPow(_, _)
RPow(x, k) == IF k = 0 THEN RInt(1) ELSE RMul(x, RPow(x, k - 1))

(***************************************************************************)
(* Capacity-expansion notebook: techno-economic assumptions.               *)
(***************************************************************************)

(* r / (1.0 - 1.0 / (1.0 + r)): the factor without the lifetime.           *)
AnnuityWithoutLifetime(r, periods) ==
    FlDivide(r, FlSub(FlOne, FlDivide(FlOne, FlAdd(FlOne, r))))

(* def annuity(r, n): return r / (1.0 - 1.0 / (1.0 + r) ** n)              *)
(* on the float64 entries of a row of the cost table.                      *)
annuity(r, periods) ==
    FlDivide(r, FlSub(FlOne, FlDivide(FlOne, FlPow(FlAdd(FlOne, r), periods))))

(* The same expression in exact arithmetic.  The cost table of the network *)
(* model carries exact rationals.                                          *)
AnnuityFactor(r, periods) ==
    RDiv(r, RSub(RInt(1), RDiv(RInt(1), RPow(RAdd(RInt(1), r), periods))))

None == [none |-> TRUE]

Techs ==
    {"onwind", "solar", "battery inverter", "battery storage",
     "electrolysis", "OCGT", "hydrogen storage underground"}

RawParams ==
    {"investment", "FOM", "VOM", "fuel", "efficiency", "lifetime", "discount rate"}

(* The rows of costs_2030.csv, indexed by (technology, parameter).  The    *)
(* file states no FOM for the storage technologies.  Discount rate and     *)
(* lifetime are the data the annuity depends on.                           *)
CsvKeys ==
    (Techs \X RawParams)
        \ {<<"battery storage", "FOM">>, <<"hydrogen storage underground", "FOM">>}

CsvRow(key, rate, years) ==
    CASE key[2] = "discount rate" -> [value |-> rate, unit |-> "per unit"]
      [] key[2] = "lifetime" -> [value |-> RInt(years), unit |-> "years"]
      [] key[2] = "investment" ->
            IF key[1] \in {"battery storage", "hydrogen storage underground"}
            THEN [value |-> RInt(1), unit |-> "EUR/kWh"]
            ELSE [value |-> RInt(2), unit |-> "EUR/kW"]
      [] key[2] = "FOM" -> [value |-> RInt(2), unit |-> "%/year"]
      [] key[2] = "VOM" -> [value |-> Rat(1, 2), unit |-> "EUR/MWh"]
      [] key[2] = "fuel" ->
            [value |-> IF key[1] = "OCGT" THEN RInt(20) ELSE RInt(0),
             unit |-> "EUR/MWh_th"]
      [] OTHER -> [value |-> Rat(4, 5), unit |-> "per unit"]

(* The frame read_csv returns: the columns value and unit over the index.  *)
CostsCsv(rate, years) ==
    [value |-> [key \in CsvKeys |-> CsvRow(key, rate, years).value],
     unit |-> [key \in CsvKeys |-> CsvRow(key, rate, years).unit]]

(* costs.unit.str.contains("/kW")                                          *)
ContainsPerKW(unit) == unit \in {"EUR/kW", "EUR/kWh"}

(* costs.loc[costs.unit.str.contains("/kW"), "value"] *= 1e3               *)
ConvertUnits(csv) ==
    [csv EXCEPT !.value =
        [key \in DOMAIN @ |->
            IF ContainsPerKW(csv.unit[key]) THEN RMul(@[key], RInt(1000)) ELSE @[key]]]

(* .fillna({"discount rate": 0.07, "lifetime": 20, "FOM": 0})              *)
FillValue(param) ==
    CASE param = "discount rate" -> Rat(7, 100)
      [] param = "lifetime" -> RInt(20)
      [] param = "FOM" -> RInt(0)
      [] OTHER -> NaN

(* costs.value.unstack().fillna(...)                                       *)
Unstack(csv) ==
    [tech \in {key[1] : key \in DOMAIN csv.value} |->
        [param \in {key[2] : key \in DOMAIN csv.value} |->
            IF <<tech, param>> \in DOMAIN csv.value
            THEN csv.value[<<tech, param>>]
            ELSE FillValue(param)]]

read_costs(csv) == Unstack(ConvertUnits(csv))

(* df[column] = values, for a frame held as row -> column -> value         *)
WithColumn(df, column, values) ==
    [row \in DOMAIN df |->
        [c \in DOMAIN df[row] \cup {column} |->
            IF c = column THEN values[row] ELSE df[row][c]]]

(* costs["VOM"] + costs["fuel"] / costs["efficiency"]                      *)
marginal_cost(table) ==
    [tech \in DOMAIN table |->
        RAdd(table[tech]["VOM"], RDiv(table[tech]["fuel"], table[tech]["efficiency"]))]

(* costs.apply(lambda x: annuity(x["discount rate"], x["lifetime"]), axis=1) *)
(* on the rational cost table.                                             *)
ApplyAnnuity(table) ==
    [tech \in DOMAIN table |->
        AnnuityFactor(table[tech]["discount rate"], table[tech]["lifetime"][1])]

(* (a + costs["FOM"] / 100) * costs["investment"]                          *)
capital_cost(table, factor) ==
    [tech \in DOMAIN table |->
        RMul(RAdd(factor[tech], RDiv(table[tech]["FOM"], RInt(100))),
             table[tech]["investment"])]

(***************************************************************************)
(* Capacity-expansion notebook: the time series and its sampling.          *)
(***************************************************************************)
RESOLUTION == 3

MaxHours == 4          \* most hourly rows in time-series.csv

(* time-series.csv: one row per hour with load_mw, wind_pu, pv_pu.         *)
TimeSeriesCsv(load) ==
    [index |-> [h \in 1..Len(load) |-> h],
     load_mw |-> load,
     wind_pu |-> [h \in 1..Len(load) |-> Rat(1, 2)],
     pv_pu |-> [h \in 1..Len(load) |-> IF h % 2 = 1 THEN Rat(1, 4) ELSE RInt(0)]]

(* seq[::2] whatever the step.                                             *)
EverySecond(seq, step) ==
    [k \in 1..((Len(seq) + 1) \div 2) |-> seq[(k - 1) * 2 + 1]]

(* seq[::step]                                                             *)
EveryNth(seq, step) ==
    [k \in 1..((Len(seq) + step - 1) \div step) |-> seq[(k - 1) * step + 1]]

(* pd.read_csv(url, index_col=0, parse_dates=True)[::RESOLUTION]           *)
read_time_series(csv) == [c \in DOMAIN csv |-> EveryNth(csv[c], RESOLUTION)]

RECURSIVE SeqMax(_)
SeqMax(seq) ==
    IF Len(seq) = 1 THEN seq[1]
    ELSE LET rest == SeqMax(Tail(seq))
         IN  IF seq[1] >= rest THEN seq[1] ELSE rest

RECURSIVE SeqSum(_)
SeqSum(seq) == IF seq = <<>> THEN 0 ELSE Head(seq) + SeqSum(Tail(seq))

(***************************************************************************)
(* The network object.  Components are kept in one table indexed by        *)
(* <<class, name>>; an attribute that may vary over the snapshots is       *)
(* either Static(v) or Series(s).                                          *)
(***************************************************************************)
Inf == -1               \* float("inf"), the default of p_nom_max

Static(v) == [static |-> v]
Series(s) == [series |-> s]

(* The value of a possibly time-varying attribute in every snapshot.       *)
Dense(attr, T) ==
    IF "series" \in DOMAIN attr THEN attr.series ELSE [t \in 1..T |-> attr.static]

Defaults(class) ==
    CASE class = "Bus" -> [carrier |-> ""]
      [] class = "Carrier" -> [color |-> ""]
      [] class = "Load" -> [bus |-> "", carrier |-> "", p_set |-> Static(0)]
      [] class = "Generator" ->
            [bus |-> "", carrier |-> "", p_nom |-> 0, p_nom_extendable |-> FALSE,
             p_nom_max |-> Inf, marginal_cost |-> 0, marginal_cost_quadratic |-> 0,
             capital_cost |-> RInt(0), p_max_pu |-> Static(RInt(1))]
      [] class = "StorageUnit" ->
            [bus |-> "", carrier |-> "", p_nom |-> 0, p_nom_extendable |-> FALSE,
             max_hours |-> 1, capital_cost |-> RInt(0),
             efficiency_store |-> RInt(1), efficiency_dispatch |-> RInt(1),
             cyclic_state_of_charge |-> FALSE]
      [] class = "Link" ->
            [bus0 |-> "", bus1 |-> "", carrier |-> "", p_nom |-> 0,
             p_nom_extendable |-> FALSE, efficiency |-> RInt(1),
             capital_cost |-> RInt(0)]
      [] class = "Store" ->
            [bus |-> "", carrier |-> "", e_nom |-> 0, e_nom_extendable |-> FALSE,
             e_cyclic |-> FALSE, capital_cost |-> RInt(0)]

(* pypsa.Network()                                                         *)
Network ==
    [components |-> [key \in {} |-> None],
     snapshots |-> <<"now">>,
     snapshot_weightings |-> <<1>>]

Has(net, class, name) == <<class, name>> \in DOMAIN net.components

(* n.add(class, name, **attrs) for a name the network does not hold yet    *)
Add(net, class, name, attrs) ==
    LET row == [k \in DOMAIN Defaults(class) |->
                   IF k \in DOMAIN attrs THEN attrs[k] ELSE Defaults(class)[k]]
    IN  [net EXCEPT !.components =
            [key \in DOMAIN @ \cup {<<class, name>>} |->
                IF key = <<class, name>> THEN row ELSE @[key]]]

(* n.remove(class, name) for a component the network holds                 *)
Remove(net, class, name) ==
    [net EXCEPT !.components = [key \in DOMAIN @ \ {<<class, name>>} |-> @[key]]]

(* n.set_snapshots(index): the weightings start at 1 per snapshot          *)
set_snapshots(net, index) ==
    [net EXCEPT !.snapshots = index,
              !.snapshot_weightings = [t \in 1..Len(index) |-> 1]]

(* n.snapshot_weightings.loc[:, :] = value                                 *)
SetWeightings(net, value) ==
    [net EXCEPT !.snapshot_weightings = [t \in 1..Len(@) |-> value]]

Names(net, class) == {key[2] : key \in {k \in DOMAIN net.components : k[1] = class}}

(***************************************************************************)
(* The two notebooks as statement lists, in cell order.                    *)
(***************************************************************************)
carriers ==
    <<"wind", "solar", "hydrogen storage", "battery storage", "load shedding",
      "electrolysis", "turbine", "electricity", "hydrogen">>

colors ==
    <<"dodgerblue", "gold", "black", "yellowgreen", "darkorange", "magenta",
      "red", "grey", "grey">>

CapacityProgram ==
    << [op |-> "import", line |-> 36],
       [op |-> "read_csv_costs", line |-> 70],
       [op |-> "convert_units", line |-> 71],
       [op |-> "unstack_fillna", line |-> 72],
       [op |-> "marginal_cost", line |-> 88],
       [op |-> "def", line |-> 109],
       [op |-> "apply_annuity", line |-> 124],
       [op |-> "capital_cost", line |-> 138],
       [op |-> "read_time_series", line |-> 161],
       [op |-> "head", line |-> 175],
       [op |-> "new_network", line |-> 196],
       [op |-> "add", class |-> "Bus", names |-> <<"electricity">>, line |-> 197],
       [op |-> "set_snapshots", line |-> 198],
       [op |-> "set_weightings", line |-> 219],
       [op |-> "add", class |-> "Carrier", names |-> carriers, line |-> 262],
       [op |-> "add", class |-> "Load", names |-> <<"demand">>, line |-> 283],
       [op |-> "add", class |-> "Generator", names |-> <<"load shedding">>, line |-> 309],
       [op |-> "add", class |-> "Generator", names |-> <<"wind">>, line |-> 337],
       [op |-> "add", class |-> "Generator", names |-> <<"solar">>, line |-> 355],
       [op |-> "add", class |-> "StorageUnit", names |-> <<"battery storage">>, line |-> 380],
       [op |-> "add", class |-> "Bus", names |-> <<"hydrogen">>, line |-> 408],
       [op |-> "add", class |-> "Link", names |-> <<"electrolysis">>, line |-> 417],
       [op |-> "add", class |-> "Link", names |-> <<"turbine">>, line |-> 435],
       [op |-> "add", class |-> "Store", names |-> <<"hydrogen storage">>, line |-> 453],
       [op |-> "optimize", solver_name |-> "highs", line |-> 482],
       [op |-> "total_system_cost", line |-> 510],
       [op |-> "tsc_sum", line |-> 522],
       [op |-> "show_optimal_capacity", line |-> 543],
       [op |-> "show_energy_balance", line |-> 564],
       [op |-> "plot_energy_balance", line |-> 580],
       [op |-> "plot_marginal_price", line |-> 596] >>

(* n.add("Load", "demand", bus="electricity"): a load without set point.   *)
LoadWithoutSetPoint == [bus |-> "electricity"]

(* n.add("Load", "demand", bus="electricity", p_set=100)                   *)
InelasticLoad == [bus |-> "electricity", p_set |-> Static(100)]

(* The load-shedding generator at another price than the value of lost    *)
(* load.                                                                   *)
SheddingAboveVOLL ==
    [bus |-> "electricity", carrier |-> "load", marginal_cost |-> 5000, p_nom |-> 100]

(* n.add("Generator", "load-shedding", ..., marginal_cost=2000, p_nom=100) *)
VOLLShedding ==
    [bus |-> "electricity", carrier |-> "load", marginal_cost |-> 2000, p_nom |-> 100]

(* The load-shedding generator with the slope b in place of b / 2.         *)
SheddingWithFullSlope ==
    [bus |-> "electricity", carrier |-> "load",
     marginal_cost_quadratic |-> 20, p_nom |-> 100]

(* n.add("Generator", "load-shedding", ..., marginal_cost_quadratic=20 / 2, *)
(*       p_nom=100)                                                        *)
LinearElasticShedding ==
    [bus |-> "electricity", carrier |-> "load",
     marginal_cost_quadratic |-> 20 \div 2, p_nom |-> 100]

ElasticityProgram ==
    << [op |-> "import", line |-> 45],
       [op |-> "def", line |-> 60],
       [op |-> "model_energy", line |-> 81],
       [op |-> "remove", class |-> "Load", name |-> "demand", line |-> 82],
       [op |-> "remove", class |-> "Generator", name |-> "load shedding", line |-> 83],
       [op |-> "add", class |-> "Load", names |-> <<"demand">>, line |-> 103,
        attrs |-> InelasticLoad],
       [op |-> "optimize", solver_name |-> "default", line |-> 112],
       [op |-> "subplots", line |-> 128],
       [op |-> "plot_price_duration", label |-> "default", line |-> 129],
       [op |-> "optimal_capacity", column |-> "inelastic", to_frame |-> TRUE, line |-> 144],
       [op |-> "add", class |-> "Generator", names |-> <<"load-shedding">>, line |-> 177,
        attrs |-> VOLLShedding],
       [op |-> "optimize", solver_name |-> "default", line |-> 193],
       [op |-> "plot_price_duration", label |-> "VOLL", line |-> 209],
       [op |-> "optimal_capacity", column |-> "VOLL", to_frame |-> FALSE, line |-> 226],
       [op |-> "plot_demand_curve", line |-> 249],
       [op |-> "remove", class |-> "Generator", name |-> "load-shedding", line |-> 281],
       [op |-> "add", class |-> "Generator", names |-> <<"load-shedding">>, line |-> 283,
        attrs |-> LinearElasticShedding],
       [op |-> "optimize", solver_name |-> "gurobi", line |-> 299],
       [op |-> "plot_price_duration", label |-> "linear-elastic", line |-> 315],
       [op |-> "optimal_capacity", column |-> "linear-elastic", to_frame |-> FALSE, line |-> 332],
       [op |-> "plot_dispatch", name |-> "load-shedding", line |-> 342],
       [op |-> "scale", name |-> "load-shedding", attr |-> "p_nom_max",
        times |-> 1, over |-> 5, line |-> 369],
       [op |-> "scale", name |-> "load-shedding", attr |-> "marginal_cost_quadratic",
        times |-> 5, over |-> 1, line |-> 370],
       [op |-> "optimize", solver_name |-> "gurobi", line |-> 379],
       [op |-> "plot_price_duration", label |-> "mixed-elastic", line |-> 395],
       [op |-> "optimal_capacity", column |-> "mixed-elastic", to_frame |-> FALSE, line |-> 412],
       [op |-> "plot_dispatch", name |-> "load-shedding", line |-> 429] >>

(* The notebooks without the n.remove that precedes the second            *)
(* n.add of load-shedding.                                                 *)
ProgramWithoutRemoval(nb) ==
    IF nb = "capacity-expansion" THEN CapacityProgram
    ELSE SelectSeq(ElasticityProgram, LAMBDA st : st.line # 281)

(* The notebooks without the solve of the mixed-elastic scenario.          *)
ProgramWithoutLastSolve(nb) ==
    IF nb = "capacity-expansion" THEN CapacityProgram
    ELSE SelectSeq(ElasticityProgram, LAMBDA st : st.line # 379)

Program(nb) ==
    IF nb = "capacity-expansion" THEN CapacityProgram ELSE ElasticityProgram

(* The position of the statement that starts at a source line.            *)
Pos(program, line) == CHOOSE i \in 1..Len(program) : program[i].line = line

(* The keyword arguments of the n.add statements of the capacity-expansion *)
(* notebook, which read the time series and the cost table.                *)
CapacityAttrs(class, name, sampled, table) ==
    CASE class = "Bus" -> [carrier |-> name]
      [] class = "Carrier" ->
            [color |-> colors[CHOOSE i \in 1..Len(carriers) : carriers[i] = name]]
      [] name = "demand" ->
            [bus |-> "electricity", p_set |-> Series(sampled.load_mw)]
      [] name = "load shedding" ->
            [bus |-> "electricity", carrier |-> "load shedding",
             marginal_cost |-> 2000, p_nom |-> SeqMax(sampled.load_mw)]
      [] name = "wind" ->
            [bus |-> "electricity", carrier |-> "wind",
             p_max_pu |-> Series(sampled.wind_pu),
             capital_cost |-> table["onwind"]["capital_cost"],
             marginal_cost |-> table["onwind"]["marginal_cost"],
             p_nom_extendable |-> TRUE]
      [] name = "solar" ->
            [bus |-> "electricity", carrier |-> "solar",
             p_max_pu |-> Series(sampled.pv_pu),
             capital_cost |-> table["solar"]["capital_cost"],
             marginal_cost |-> table["solar"]["marginal_cost"],
             p_nom_extendable |-> TRUE]
      [] name = "battery storage" ->
            [bus |-> "electricity", carrier |-> "battery storage", max_hours |-> 3,
             capital_cost |->
                RAdd(table["battery inverter"]["capital_cost"],
                     RMul(RInt(3), table["battery storage"]["capital_cost"])),
             efficiency_store |-> table["battery inverter"]["efficiency"],
             efficiency_dispatch |-> table["battery inverter"]["efficiency"],
             p_nom_extendable |-> TRUE, cyclic_state_of_charge |-> TRUE]
      [] name = "electrolysis" ->
            [bus0 |-> "electricity", bus1 |-> "hydrogen", carrier |-> "electrolysis",
             p_nom_extendable |-> TRUE,
             efficiency |-> table["electrolysis"]["efficiency"],
             capital_cost |-> table["electrolysis"]["capital_cost"]]
      [] name = "turbine" ->
            [bus0 |-> "hydrogen", bus1 |-> "electricity", carrier |-> "turbine",
             p_nom_extendable |-> TRUE,
             efficiency |-> table["OCGT"]["efficiency"],
             capital_cost |->
                RDiv(table["OCGT"]["capital_cost"], table["OCGT"]["efficiency"])]
      [] name = "hydrogen storage" ->
            [bus |-> "hydrogen", carrier |-> "hydrogen storage",
             capital_cost |-> table["hydrogen storage underground"]["capital_cost"],
             e_nom_extendable |-> TRUE, e_cyclic |-> TRUE]

AddAttrs(stmt, name, sampled, table) ==
    IF "attrs" \in DOMAIN stmt THEN stmt.attrs
    ELSE CapacityAttrs(stmt.class, name, sampled, table)

RECURSIVE AddAll(_, _, _, _, _)
AddAll(net, stmt, names, sampled, table) ==
    IF names = <<>> THEN net
    ELSE AddAll(Add(net, stmt.class, Head(names), AddAttrs(stmt, Head(names), sampled, table)),
                stmt, Tail(names), sampled, table)

(* Whether the statement's own precondition holds: the names an add        *)
(* introduces are new, the component a remove or an item assignment names  *)
(* exists.                                                                 *)
CanBuild(net, stmt) ==
    CASE stmt.op = "add" ->
            /\ net # None
            /\ \A i \in 1..Len(stmt.names) : ~Has(net, stmt.class, stmt.names[i])
            /\ \A i, j \in 1..Len(stmt.names) : stmt.names[i] = stmt.names[j] => i = j
      [] stmt.op = "remove" -> net # None /\ Has(net, stmt.class, stmt.name)
      [] stmt.op = "scale" -> net # None /\ Has(net, "Generator", stmt.name)
      [] stmt.op = "new_network" -> TRUE
      [] OTHER -> net # None

(* x *= 0.2 and x /= 0.2 as multiplication by times/over; inf stays inf.   *)
Scale(x, times, over) == IF x = Inf THEN Inf ELSE (x * times) \div over

(* The effect of a statement that builds or changes the network.           *)
Build(net, stmt, sampled, table) ==
    CASE stmt.op = "new_network" -> Network
      [] stmt.op = "add" -> AddAll(net, stmt, stmt.names, sampled, table)
      [] stmt.op = "remove" -> Remove(net, stmt.class, stmt.name)
      [] stmt.op = "set_snapshots" -> set_snapshots(net, sampled.index)
      [] stmt.op = "set_weightings" -> SetWeightings(net, RESOLUTION)
      [] stmt.op = "scale" ->
            [net EXCEPT !.components[<<"Generator", stmt.name>>][stmt.attr] =
                Scale(@, stmt.times, stmt.over)]

BuildOps == {"new_network", "add", "remove", "set_snapshots", "set_weightings", "scale"}

(* The cost table after the cells that prepare it.                         *)
PreparedCosts(csv) ==
    LET c1 == read_costs(csv)
        c2 == WithColumn(c1, "marginal_cost", marginal_cost(c1))
    IN  WithColumn(c2, "capital_cost", capital_cost(c2, ApplyAnnuity(c2)))

RECURSIVE RunBuild(_, _, _, _)
RunBuild(net, stmts, sampled, table) ==
    IF stmts = <<>> THEN net
    ELSE RunBuild(IF Head(stmts).op \in BuildOps
                  THEN Build(net, Head(stmts), sampled, table) ELSE net,
                  Tail(stmts), sampled, table)

(* pypsa.examples.model_energy(): the network the capacity-expansion       *)
(* notebook builds from its data, before it is solved.                     *)
model_energy(data) ==
    RunBuild(None, SelectSeq(CapacityProgram, LAMBDA st : st.op # "optimize"),
             read_time_series(data.time_series), PreparedCosts(data.costs))

(***************************************************************************)
(* n.optimize().  The library solves a cost-minimising capacity-expansion  *)
(* problem; the model keeps what every optimal solution satisfies at the   *)
(* bus that carries the load: the nodal balance, the capacity bound of the *)
(* generators of fixed capacity, and the first-order optimality of their   *)
(* dispatch against the bus price.  The components of extendable capacity  *)
(* appear as the power they deliver to the load together.                  *)
(***************************************************************************)
ShedGrid == {0, 20, 50, 100}            \* MW levels of a fixed generator
PriceGrid == {0, 1000, 2000, 5000}      \* bus prices, EUR/MWh

RECURSIVE SumOver(_, _)
SumOver(S, f) ==
    IF S = {} THEN 0
    ELSE LET x == CHOOSE x \in S : TRUE IN f[x] + SumOver(S \ {x}, f)

CapacityClasses == {"Generator", "StorageUnit", "Link", "Store"}
CapacityKeys(net) == {key \in DOMAIN net.components : key[1] \in CapacityClasses}

IsExtendable(net, key) ==
    IF key[1] = "Store" THEN net.components[key].e_nom_extendable
    ELSE net.components[key].p_nom_extendable

Nominal(net, key) ==
    IF key[1] = "Store" THEN net.components[key].e_nom ELSE net.components[key].p_nom

FixedGenerators(net) ==
    {g \in Names(net, "Generator") : ~IsExtendable(net, <<"Generator", g>>)}
VariableGenerators(net) ==
    {g \in Names(net, "Generator") : IsExtendable(net, <<"Generator", g>>)}
Flexible(net) ==
    {key \in CapacityKeys(net) : key[1] # "Generator" /\ IsExtendable(net, key)}

(* The load at the bus in snapshot t.                                      *)
Demand(net, t) ==
    LET T == Len(net.snapshots)
    IN  SumOver(Names(net, "Load"),
                [l \in Names(net, "Load") |->
                    Dense(net.components[<<"Load", l>>].p_set, T)[t]])

(* A generator of fixed capacity p_nom (p_nom_max bounds only extendable   *)
(* capacity) with cost marginal_cost * p + marginal_cost_quadratic * p^2   *)
(* per hour is dispatched where its marginal cost meets the price, or at   *)
(* one of its bounds.                                                      *)
DispatchOptimal(gen, p, price) ==
    LET mc == gen.marginal_cost + 2 * gen.marginal_cost_quadratic * p
    IN  /\ p <= gen.p_nom
        /\ p < gen.p_nom => price <= mc
        /\ p > 0 => price >= mc

SnapshotOutcomes(net, t) ==
    LET gens == FixedGenerators(net)
    IN  {o \in [p : [gens -> ShedGrid], price : PriceGrid] :
            /\ \A g \in gens :
                  DispatchOptimal(net.components[<<"Generator", g>>], o.p[g], o.price)
            /\ SumOver(gens, o.p) <= Demand(net, t)
            /\ SumOver(gens, o.p) < Demand(net, t) => VariableGenerators(net) # {}}

Dispatches(net) ==
    LET T == Len(net.snapshots)
        all == UNION {SnapshotOutcomes(net, t) : t \in 1..T}
    IN  {d \in [1..T -> all] : \A t \in 1..T : d[t] \in SnapshotOutcomes(net, t)}

(* Optimal capacities: a fixed component keeps its nominal capacity; the   *)
(* extendable generators are built exactly when the load draws on them;    *)
(* storage and links are built all or none, and only next to generators    *)
(* and with more than one snapshot to shift energy between.                *)
BuiltCapacity == 400

CapacityChoices(net, used) ==
    {[key \in CapacityKeys(net) |->
        IF ~IsExtendable(net, key) THEN Nominal(net, key)
        ELSE IF key[1] = "Generator"
             THEN (IF used THEN BuiltCapacity ELSE 0)
             ELSE (IF flex THEN BuiltCapacity ELSE 0)] :
     flex \in {f \in BOOLEAN :
                 f => (used /\ Len(net.snapshots) > 1 /\ Flexible(net) # {})}}

LoadBuses(net) == {net.components[<<"Load", l>>].bus : l \in Names(net, "Load")}

Solutions(net) ==
    LET T == Len(net.snapshots)
        gens == FixedGenerators(net)
        Shed(d, t) == SumOver(gens, d[t].p)
    IN  UNION {
          {[generators_t_p |-> [g \in gens |-> [t \in 1..T |-> d[t].p[g]]],
            variable_supply |-> [t \in 1..T |-> Demand(net, t) - Shed(d, t)],
            marginal_price |->
                [b \in Names(net, "Bus") |->
                    [t \in 1..T |-> IF b \in LoadBuses(net) THEN d[t].price ELSE 0]],
            p_nom_opt |-> c] :
           c \in CapacityChoices(net, \E t \in 1..T : Shed(d, t) < Demand(net, t))} :
          d \in Dispatches(net)}

(* n.statistics.optimal_capacity(round=2): capacity by class and carrier.  *)
optimal_capacity(net, opt) ==
    LET Group(key) == <<key[1], net.components[key].carrier>>
    IN  [grp \in {Group(key) : key \in DOMAIN opt} |->
            SumOver({key \in DOMAIN opt : Group(key) = grp}, opt)]

(* frame[column] = series, aligned on the index of the frame               *)
AssignColumn(frame, column, series) ==
    LET index == DOMAIN frame[CHOOSE c \in DOMAIN frame : TRUE]
    IN  [c \in DOMAIN frame \cup {column} |->
            IF c = column
            THEN [k \in index |-> IF k \in DOMAIN series THEN series[k] ELSE NaN]
            ELSE frame[c]]

(***************************************************************************)
(* demand-elasticity.ipynb: get_price_duration.                            *)
(***************************************************************************)
(* The insertion step of an ascending sort: sort_values() without          *)
(* ascending=False.                                                        *)
RECURSIVE InsertAscending(_, _)
InsertAscending(x, s) ==
    IF s = <<>> THEN <<x>>
    ELSE IF x <= Head(s) THEN <<x>> \o s
    ELSE <<Head(s)>> \o InsertAscending(x, Tail(s))

(* Series.sort_values(ascending=False).reset_index(drop=True): the values  *)
(* in non-increasing order, the old index dropped.                         *)
RECURSIVE InsertDescending(_, _)
InsertDescending(x, s) ==
    IF s = <<>> THEN <<x>>
    ELSE IF x >= Head(s) THEN <<x>> \o s
    ELSE <<Head(s)>> \o InsertDescending(x, Tail(s))

RECURSIVE sort_values(_)
sort_values(s) ==
    IF s = <<>> THEN <<>>
    ELSE InsertDescending(Head(s), sort_values(Tail(s)))

(* np.arange(0, 100, step) for a double step: ceil((100 - 0) / step)       *)
(* entries, the k-th (from 0) being fl(0 + k * step).                      *)
arange(step) ==
    [k \in 1..FlCeil(FlDiv(100, step)) |-> FlTimesInt(k - 1, step)]

(* get_price_duration(n, bus).  A bus without a column is a KeyError, an   *)
(* empty series divides by zero, and assigning an index of another length  *)
(* than the series is a ValueError.                                        *)
get_price_duration(mp, bus) ==
    IF bus \notin DOMAIN mp THEN [ok |-> FALSE, error |-> "KeyError"]
    ELSE LET s == sort_values(mp[bus])
         IN  IF Len(s) = 0 THEN [ok |-> FALSE, error |-> "ZeroDivisionError"]
             ELSE LET index == arange(FlDivInt(100, WInt(Len(s))))
                  IN  IF Len(index) # Len(s)
                      THEN [ok |-> FALSE, error |-> "ValueError"]
                      ELSE [ok |-> TRUE, values |-> s, index |-> index]

(***************************************************************************)
(* Running a notebook: one action per kind of statement.  A statement that *)
(* raises ends the run; no cell holds a try, a retry or a default.         *)
(***************************************************************************)
Stmt == Program(notebook)[pc]
Running == error = "none" /\ pc \in 1..Len(Program(notebook))
At(ops) == Running /\ Stmt.op \in ops
Advance == pc' = pc + 1 /\ UNCHANGED <<notebook, error, remote>>

(* Statements that reach outside the kernel: a download, the solver.       *)
ExternalOps == {"import", "read_csv_costs", "read_time_series", "model_energy", "optimize"}

(* Statements that read the results of the last optimize call.             *)
ResultReads ==
    {"plot_price_duration", "optimal_capacity", "plot_dispatch", "total_system_cost",
     "show_optimal_capacity", "show_energy_balance", "plot_energy_balance",
     "plot_marginal_price"}

(* The exceptions a statement can raise in the kernel's present state: an  *)
(* add of a name the network holds, a remove or an item access of a name   *)
(* that is missing, whatever get_price_duration raises, and the failure of *)
(* a download or of the solver.                                            *)
Failures(stmt) ==
    (IF stmt.op \in ExternalOps THEN {"Exception"} ELSE {})
    \cup
    (CASE stmt.op = "add" -> IF CanBuild(n, stmt) THEN {} ELSE {"ValueError"}
       [] stmt.op \in {"remove", "scale"} ->
             IF CanBuild(n, stmt) THEN {} ELSE {"KeyError"}
       [] stmt.op = "plot_dispatch" ->
             IF stmt.name \in DOMAIN generators_t_p THEN {} ELSE {"KeyError"}
       [] stmt.op = "plot_price_duration" ->
             {curve.error :
                curve \in {c \in {get_price_duration(marginal_price, "electricity")} :
                             ~c.ok}}
       [] OTHER -> {})

(* A cell that catches the exception and carries on with the next          *)
(* statement.                                                              *)
RaiseAndContinue ==
    /\ Running
    /\ \E exception \in Failures(Stmt) : error' = "none"
    /\ pc' = pc + 1
    /\ UNCHANGED <<notebook, remote, frames, n, results, duration>>

(* The statement raises: the exception leaves the cell, the run stops, and *)
(* nothing the statement would have assigned is assigned.                  *)
Raise ==
    /\ Running
    /\ \E exception \in Failures(Stmt) : error' = exception
    /\ UNCHANGED <<notebook, pc, remote, frames, n, results, duration>>

(* import ..., def ...                                                     *)
Import ==
    /\ At({"import", "def"})
    /\ Advance
    /\ UNCHANGED <<frames, n, results, duration>>

(* costs = pd.read_csv(url, index_col=[0, 1])                              *)
ReadCsvCosts ==
    /\ At({"read_csv_costs"})
    /\ costs' = remote.costs
    /\ Advance
    /\ UNCHANGED <<a, ts, capacities, ax, tsc, n, results, duration>>

(* The cells that prepare the cost table, one statement each.              *)
PrepareCosts ==
    /\ At({"convert_units", "unstack_fillna", "marginal_cost", "capital_cost"})
    /\ costs' = CASE Stmt.op = "convert_units" -> ConvertUnits(costs)
                  [] Stmt.op = "unstack_fillna" -> Unstack(costs)
                  [] Stmt.op = "marginal_cost" ->
                        WithColumn(costs, "marginal_cost", marginal_cost(costs))
                  [] Stmt.op = "capital_cost" ->
                        WithColumn(costs, "capital_cost", capital_cost(costs, a))
    /\ Advance
    /\ UNCHANGED <<a, ts, capacities, ax, tsc, n, results, duration>>

(* a = costs.apply(lambda x: annuity(...), axis=1)                         *)
Annuity ==
    /\ At({"apply_annuity"})
    /\ a' = ApplyAnnuity(costs)
    /\ Advance
    /\ UNCHANGED <<costs, ts, capacities, ax, tsc, n, results, duration>>

(* ts = pd.read_csv(url, index_col=0, parse_dates=True)[::RESOLUTION]      *)
ReadTimeSeries ==
    /\ At({"read_time_series"})
    /\ ts' = read_time_series(remote.time_series)
    /\ Advance
    /\ UNCHANGED <<costs, a, capacities, ax, tsc, n, results, duration>>

(* What is left of the result tables when the network changes: a removed   *)
(* component loses its columns, a new one has no optimal capacity yet, new *)
(* snapshots start empty time series.                                      *)
CarryResults(n2, keep_series) ==
    /\ p_nom_opt' = [key \in CapacityKeys(n2) |->
                        IF key \in DOMAIN p_nom_opt THEN p_nom_opt[key] ELSE 0]
    /\ generators_t_p' =
          IF keep_series
          THEN [g \in DOMAIN generators_t_p \cap Names(n2, "Generator") |->
                    generators_t_p[g]]
          ELSE <<>>
    /\ marginal_price' = IF keep_series THEN marginal_price ELSE <<>>
    /\ variable_supply' = IF keep_series THEN variable_supply ELSE <<>>
    /\ UNCHANGED solved

(* n = pypsa.Network()                                                     *)
NewNetwork ==
    /\ At({"new_network"})
    /\ n' = Build(n, Stmt, ts, costs)
    /\ CarryResults(n', FALSE)
    /\ Advance
    /\ UNCHANGED <<frames, duration>>

(* n = pypsa.examples.model_energy()                                       *)
ModelEnergy ==
    /\ At({"model_energy"})
    /\ n' = model_energy(remote)
    /\ CarryResults(n', FALSE)
    /\ Advance
    /\ UNCHANGED <<frames, duration>>

(* n.add(class, name, ...)                                                 *)
AddComponent ==
    /\ At({"add"})
    /\ CanBuild(n, Stmt)
    /\ n' = Build(n, Stmt, ts, costs)
    /\ CarryResults(n', TRUE)
    /\ Advance
    /\ UNCHANGED <<frames, duration>>

(* n.remove(class, name)                                                   *)
RemoveComponent ==
    /\ At({"remove"})
    /\ CanBuild(n, Stmt)
    /\ n' = Build(n, Stmt, ts, costs)
    /\ CarryResults(n', TRUE)
    /\ Advance
    /\ UNCHANGED <<frames, duration>>

(* n.set_snapshots(ts.index)                                               *)
SetSnapshots ==
    /\ At({"set_snapshots"})
    /\ n' = Build(n, Stmt, ts, costs)
    /\ CarryResults(n', FALSE)
    /\ Advance
    /\ UNCHANGED <<frames, duration>>

(* n.snapshot_weightings.loc[:, :] = RESOLUTION                            *)
SetSnapshotWeightings ==
    /\ At({"set_weightings"})
    /\ n' = Build(n, Stmt, ts, costs)
    /\ Advance
    /\ UNCHANGED <<frames, results, duration>>

(* n.generators.loc[name, attr] *= 0.2  and  /= 0.2                        *)
ScaleAttribute ==
    /\ At({"scale"})
    /\ CanBuild(n, Stmt)
    /\ n' = Build(n, Stmt, ts, costs)
    /\ Advance
    /\ UNCHANGED <<frames, results, duration>>

(* n.optimize(...): the solver returns one of the optimal solutions and    *)
(* the library writes it to the result tables.                             *)
Optimize ==
    /\ At({"optimize"})
    /\ \E sol \in Solutions(n) :
          /\ marginal_price' = sol.marginal_price
          /\ generators_t_p' = sol.generators_t_p
          /\ variable_supply' = sol.variable_supply
          /\ p_nom_opt' = sol.p_nom_opt
    /\ solved' = n
    /\ Advance
    /\ UNCHANGED <<frames, n, duration>>

(* fig, ax = plt.subplots()                                                *)
Subplots ==
    /\ At({"subplots"})
    /\ ax' = [lines |-> <<>>]
    /\ Advance
    /\ UNCHANGED <<costs, a, ts, capacities, tsc, n, results, duration>>

(* get_price_duration(n).plot(ax=ax, label=...): the curve of the prices   *)
(* held at this moment is drawn; the axes keep its label.                  *)
PlotPriceDuration ==
    /\ At({"plot_price_duration"})
    /\ get_price_duration(marginal_price, "electricity").ok
    /\ ax' = [lines |-> Append(ax.lines, Stmt.label)]
    /\ Advance
    /\ UNCHANGED <<costs, a, ts, capacities, tsc, n, results, duration>>

(* capacities = n.statistics.optimal_capacity(round=2).to_frame(column)    *)
(* capacities[column] = n.statistics.optimal_capacity(round=2)             *)
OptimalCapacity ==
    /\ At({"optimal_capacity"})
    /\ LET series == optimal_capacity(n, p_nom_opt)
       IN  capacities' =
              IF Stmt.to_frame THEN [c \in {Stmt.column} |-> series]
              ELSE AssignColumn(capacities, Stmt.column, series)
    /\ Advance
    /\ UNCHANGED <<costs, a, ts, ax, tsc, n, results, duration>>

(* capex plus opex by component, in 1e9 EUR.  The opex is that of the      *)
(* generators of fixed capacity, whose dispatch the model holds.           *)
total_system_cost ==
    [key \in DOMAIN p_nom_opt |->
        LET capex == RMul(n.components[key].capital_cost, RInt(p_nom_opt[key]))
            opex ==
                IF key[1] = "Generator" /\ key[2] \in DOMAIN generators_t_p
                THEN SumOver(1..Len(n.snapshots),
                        [t \in 1..Len(n.snapshots) |->
                            n.snapshot_weightings[t]
                              * n.components[key].marginal_cost
                              * generators_t_p[key[2]][t]])
                ELSE 0
        IN  RDiv(RAdd(capex, RInt(opex)), RInt(10^9))]

(* tsc = pd.concat([n.statistics.capex(), n.statistics.opex()], axis=1)    *)
(*         .sum(axis=1).div(1e9)                                           *)
TotalSystemCost ==
    /\ At({"total_system_cost"})
    /\ tsc' = [cost |-> total_system_cost]
    /\ Advance
    /\ UNCHANGED <<costs, a, ts, capacities, ax, n, results, duration>>

(* Cells that only display: ts.head(3), tsc.sum(), the statistics tables   *)
(* and plots, the dispatch plot, the demand curve.                         *)
Show ==
    /\ At({"head", "tsc_sum", "show_optimal_capacity", "show_energy_balance",
           "plot_energy_balance", "plot_marginal_price", "plot_dispatch",
           "plot_demand_curve"})
    /\ Stmt.op = "plot_dispatch" => Stmt.name \in DOMAIN generators_t_p
    /\ Advance
    /\ UNCHANGED <<frames, n, results, duration>>

(* The kernel before the first cell runs.                                  *)
FreshKernel ==
    /\ pc = 1
    /\ error = "none"
    /\ costs = None /\ a = None /\ ts = None
    /\ capacities = None /\ ax = None /\ tsc = None
    /\ n = None
    /\ marginal_price = <<>> /\ generators_t_p = <<>> /\ variable_supply = <<>>
    /\ p_nom_opt = <<>> /\ solved = None
    /\ duration = None

MaxYears == 2          \* longest lifetime in the cost data of a notebook run

(* Hourly loads that step from the lower to the upper level.               *)
Loads ==
    {[h \in 1..hours |-> IF h <= low THEN 50 ELSE 100] :
        hours \in 1..MaxHours, low \in 0..MaxHours}

Init ==
    /\ notebook \in {"capacity-expansion", "demand-elasticity"}
    /\ \E years \in 1..MaxYears, load \in Loads :
          /\ notebook = "demand-elasticity" =>
                years = 1 /\ \A h \in 1..Len(load) : load[h] = 100
          /\ remote = [costs |-> CostsCsv(Rat(1, 10), years),
                       time_series |-> TimeSeriesCsv(load)]
    /\ FreshKernel

Next ==
    \/ Import
    \/ ReadCsvCosts
    \/ PrepareCosts
    \/ Annuity
    \/ ReadTimeSeries
    \/ NewNetwork
    \/ ModelEnergy
    \/ AddComponent
    \/ RemoveComponent
    \/ SetSnapshots
    \/ SetSnapshotWeightings
    \/ ScaleAttribute
    \/ Optimize
    \/ Subplots
    \/ PlotPriceDuration
    \/ OptimalCapacity
    \/ TotalSystemCost
    \/ Show
    \/ Raise

Spec == Init /\ [][Next]_vars

(***************************************************************************)
(* Properties of the notebook runs.                                        *)
(***************************************************************************)
VOLL == 2000            \* marginal_cost of the VOLL load-shedding generator
CurveA == 2000          \* the demand curve p = a - b d of the notebook
CurveB == 20

(* The demand-elasticity notebook after the statement at line first has    *)
(* run and before the one at line last runs.                               *)
Between(first, last) ==
    /\ notebook = "demand-elasticity"
    /\ pc > Pos(ElasticityProgram, first)
    /\ pc <= Pos(ElasticityProgram, last)

Snapshots == 1..Len(n.snapshots)
Shed(t) == generators_t_p["load-shedding"][t]
Price(t) == marginal_price["electricity"][t]
Shedding == n.components[<<"Generator", "load-shedding">>]

C4_ShedsAtMostAFifth ==
    Between(370, 429) =>
        /\ Shedding.marginal_cost_quadratic = 50
        /\ Between(379, 429) => \A t \in Snapshots : Shed(t) <= 20

(* The cost per hour of a generator dispatched at g.                       *)
DispatchCost(gen, g) == gen.marginal_cost * g + gen.marginal_cost_quadratic * g * g

(* U(d) = a d - 0.5 b d^2                                                  *)
Utility(d) == CurveA * d - (CurveB * d * d) \div 2

(* C5: the linear-elastic load-shedding generator reproduces the demand    *)
(* curve p = 2000 - 20 d.  With d = a/b - g its cost 10 g^2 is the utility *)
(* lost, U(100) - U(100 - g), for every g in 0..100, U(100 - g) being      *)
(* a^2/(2b) - (b/2) g^2; a/b is both the p_set of the load and the p_nom   *)
(* of the generator; and where the solve sheds part of the load the price  *)
(* lies on the curve.                                                      *)
C5_LinearDemandCurve ==
    Between(283, 369) =>
        /\ Shedding.marginal_cost_quadratic * 2 = CurveB
        /\ Shedding.p_nom * CurveB = CurveA
        /\ n.components[<<"Load", "demand">>].p_set = Static(Shedding.p_nom)
        /\ Shedding.p_nom = 100
        /\ \A g \in 0..100 :
              /\ DispatchCost(Shedding, g) = 10 * g * g
              /\ DispatchCost(Shedding, g) = Utility(100) - Utility(100 - g)
              /\ Utility(100 - g) =
                    (CurveA * CurveA) \div (2 * CurveB) - (CurveB \div 2) * g * g
        /\ Between(299, 369) =>
              \A t \in Snapshots :
                  (0 < Shed(t) /\ Shed(t) < 100) =>
                      Price(t) = CurveA - CurveB * (100 - Shed(t))

(* C5's case: at a price of 1000 the demand is 50 MW.                      *)
C5_Witness ==
    /\ Between(299, 369)
    /\ Shed(1) = 50
    /\ Price(1) = 1000

(* C7: every statement that reads results runs on the network as it was    *)
(* handed to the last optimize call: a solve precedes it and no add,       *)
(* remove or assignment has changed the network since; the column that an  *)
(* optimal_capacity statement has just written holds the capacities of     *)
(* that solve.                                                             *)
C7_ReadsFollowSolve ==
    /\ (Running /\ Stmt.op \in ResultReads) => (solved # None /\ solved = n)
    /\ \A i \in 2..Len(Program(notebook)) :
          (pc = i /\ Program(notebook)[i - 1].op = "optimal_capacity") =>
              /\ solved = n
              /\ \A grp \in DOMAIN capacities[Program(notebook)[i - 1].column] :
                    LET cell == capacities[Program(notebook)[i - 1].column][grp]
                        series == optimal_capacity(solved, p_nom_opt)
                    IN  cell = IF grp \in DOMAIN series THEN series[grp] ELSE NaN

(* C7's case: the mixed-elastic column is about to be written.             *)
C7_Witness ==
    /\ Running
    /\ Stmt.op = "optimal_capacity"
    /\ Stmt.column = "mixed-elastic"
    /\ solved = n
    /\ Shedding.marginal_cost_quadratic = 50

(* C8: the network of the first optimize call holds Load demand with       *)
(* p_set = 100 and no load-shedding generator under either name, and the   *)
(* solution it returns supplies exactly 100 MW in every snapshot, nothing  *)
(* being shed.                                                             *)
C8_InelasticDemandMet ==
    /\ (notebook = "demand-elasticity" /\ pc = Pos(ElasticityProgram, 112)) =>
          /\ n.components[<<"Load", "demand">>].p_set = Static(100)
          /\ Names(n, "Generator") \cap {"load shedding", "load-shedding"} = {}
          /\ FixedGenerators(n) = {}
    /\ Between(112, 177) =>
          /\ solved = n
          /\ DOMAIN generators_t_p = {}
          /\ \A t \in Snapshots : variable_supply[t] = 100

(* C8's case: the first solve has returned for two snapshots.              *)
C8_Witness ==
    /\ Between(112, 128)
    /\ error = "none"
    /\ variable_supply = <<100, 100>>

(* What a statement that reaches outside the kernel leaves behind when it  *)
(* returns.                                                                *)
Performed ==
    /\ Stmt.op = "optimize" => solved' = n
    /\ Stmt.op = "model_energy" => n' # None
    /\ Stmt.op = "read_csv_costs" => costs' # None
    /\ Stmt.op = "read_time_series" => ts' # None

(* C9: a statement either completes or raises.  When it raises the run     *)
(* ends there: the position, the network, the frames and the result tables *)
(* stay as they were, and no later step follows.  No statement is passed   *)
(* over without its effect.                                                *)
C9_FailuresPropagate ==
    [][/\ error = "none"
       /\ error' # "none" =>
             UNCHANGED <<notebook, pc, remote, frames, n, results, duration>>
       /\ error' = "none" => (pc' = pc + 1 /\ Performed)]_vars

(* C9's case: the solver fails in the linear-elastic scenario; the results *)
(* of the VOLL scenario are still in place.                                *)
C9_Witness ==
    /\ error = "Exception"
    /\ notebook = "demand-elasticity"
    /\ pc = Pos(ElasticityProgram, 299)
    /\ solved # None /\ solved # n
    /\ "VOLL" \in DOMAIN capacities

(* ceil(h / RESOLUTION)                                                    *)
SampledRows(h) == (h + RESOLUTION - 1) \div RESOLUTION

(* C10: the time series holds every third hourly row and every snapshot    *)
(* weighs RESOLUTION = 3 hours: for H hourly rows the network has          *)
(* ceil(H/3) snapshots, the rows 1, 4, 7, ..., and the weightings sum to H *)
(* when 3 divides H and to 3 * ceil(H/3) >= H otherwise.                   *)
C10_WeightingsCoverHours ==
    (notebook = "capacity-expansion" /\ pc > Pos(CapacityProgram, 219)) =>
        LET H == Len(remote.time_series.index)
        IN  /\ Len(n.snapshots) = SampledRows(H)
            /\ \A t \in Snapshots :
                  /\ n.snapshots[t] = remote.time_series.index[3 * (t - 1) + 1]
                  /\ n.snapshot_weightings[t] = RESOLUTION
            /\ Len(n.snapshot_weightings) = Len(n.snapshots)
            /\ H % 3 = 0 => SeqSum(n.snapshot_weightings) = H
            /\ H % 3 # 0 => SeqSum(n.snapshot_weightings) = 3 * SampledRows(H)
            /\ SeqSum(n.snapshot_weightings) >= H

(* C10's case: four hourly rows give two snapshots that weigh six hours.   *)
C10_Witness ==
    /\ notebook = "capacity-expansion"
    /\ pc > Pos(CapacityProgram, 219)
    /\ Len(remote.time_series.index) = 4
    /\ n.snapshot_weightings = <<3, 3>>

(* By how many components of a class a statement that succeeds changes    *)
(* the network.                                                            *)
NetChange(stmt, class) ==
    IF stmt.op = "add" /\ stmt.class = class THEN Len(stmt.names)
    ELSE IF stmt.op = "remove" /\ stmt.class = class THEN -1
    ELSE 0

(* The components of a class after the first k statements of a program,    *)
(* each having found its names free or present as it needs them.           *)
RECURSIVE Tally(_, _, _)
Tally(program, k, class) ==
    IF k = 0 THEN 0
    ELSE Tally(program, k - 1, class)
           + (IF program[k].op = "model_energy"
              THEN Tally(CapacityProgram, Len(CapacityProgram), class)
              ELSE NetChange(program[k], class))

(* C11: in the demand-elasticity notebook, model_energy() being the        *)
(* network of the capacity-expansion notebook (Load demand, Generators     *)
(* load shedding, wind, solar), every n.remove names a component that the  *)
(* network holds and every n.add a name that it does not hold, so neither  *)
(* raises; load-shedding is absent when it is added the second time; and   *)
(* the network holds as many components of a class as the adds and removes *)
(* run so far account for, none having replaced another of its name.       *)
C11_AddsAndRemovesValid ==
    notebook = "demand-elasticity" =>
        /\ pc = Pos(ElasticityProgram, 81) + 1 =>
              /\ Names(n, "Load") = {"demand"}
              /\ Names(n, "Generator") = {"load shedding", "wind", "solar"}
        /\ (pc \in 1..Len(Program(notebook)) /\ Stmt.op \in {"add", "remove"}) =>
              /\ error = "none"
              /\ CanBuild(n, Stmt)
        /\ pc = Pos(ElasticityProgram, 283) =>
              "load-shedding" \notin Names(n, "Generator")
        /\ n # None =>
              \A class \in {"Bus", "Carrier", "Load", "Generator", "StorageUnit",
                            "Link", "Store"} :
                  Cardinality(Names(n, class)) = Tally(Program(notebook), pc - 1, class)

(* C11's case: load-shedding has been removed and added a second time.     *)
C11_Witness ==
    /\ notebook = "demand-elasticity"
    /\ pc = Pos(ElasticityProgram, 283) + 1
    /\ error = "none"
    /\ Shedding.marginal_cost_quadratic = 10
    /\ Names(n, "Generator") = {"wind", "solar", "load-shedding"}
    /\ Names(n, "Load") = {"demand"}

(***************************************************************************)
(* SpecAnnuity: the annuity cell of the capacity-expansion notebook run on *)
(* rows with arbitrary discount rates and lifetimes.  The rates are k/2^j, *)
(* so that 1.0 + r is exact, and the lifetimes those for which the power   *)
(* (1.0 + r) ** n is exact, so that every step is fixed by IEEE-754.       *)
(***************************************************************************)
MaxRateShift == 3        \* discount rates are k / 2^j with j <= MaxRateShift
MaxLifetime == 54        \* lifetimes run from 1 to MaxLifetime years
MaxExactLifetime == 4    \* lifetimes whose factor is also formed as a fraction

RateNumerators == {1, 3, 7}

InitAnnuity ==
    /\ notebook = "capacity-expansion"
    /\ pc = Pos(CapacityProgram, 124)
    /\ error = "none"
    /\ remote = None
    /\ \E k \in RateNumerators, j \in 0..MaxRateShift, years \in 1..MaxLifetime :
          /\ PowIsExact(FlAdd(FlOne, FlFromWide(WInt(k), 0 - j)), years)
          /\ costs = [tech \in {"onwind"} |->
                        [discount_rate |-> FlFromWide(WInt(k), 0 - j),
                         lifetime |-> years]]
    /\ a = None /\ ts = None /\ capacities = None /\ ax = None /\ tsc = None
    /\ n = None
    /\ marginal_price = <<>> /\ generators_t_p = <<>> /\ variable_supply = <<>>
    /\ p_nom_opt = <<>> /\ solved = None
    /\ duration = None

(* a = costs.apply(lambda x: annuity(x["discount rate"], x["lifetime"]), axis=1) *)
CallAnnuity ==
    /\ At({"apply_annuity"})
    /\ a' = [tech \in DOMAIN costs |->
                annuity(costs[tech].discount_rate, costs[tech].lifetime)]
    /\ Advance
    /\ UNCHANGED <<costs, ts, capacities, ax, tsc, n, results, duration>>

NextAnnuity == CallAnnuity

SpecAnnuity == InitAnnuity /\ [][NextAnnuity]_vars

(* The present value of 1 paid at the end of each of the next k years.     *)
RECURSIVE PresentValue(_, _)
PresentValue(r, k) ==
    IF k = 0 THEN RInt(0)
    ELSE RAdd(PresentValue(r, k - 1), RDiv(RInt(1), RPow(RAdd(RInt(1), r), k)))

(* The double nearest to the exact factor r G / (G - 1), G = (1 + r)^n     *)
(* being exact.  From G = 2^56 on the factor exceeds r by less than a      *)
(* quarter of a unit in the last place.                                    *)
ExactFactorRounded(r, periods) ==
    LET o == OddPart(r.m, r.e)
        growth == FlPow(FlAdd(FlOne, r), periods)
        whole == IF growth.e > 0 THEN WTimes(2^growth.e, growth.m) ELSE growth.m
        one == IF growth.e >= 0 THEN WOne ELSE WPow2(0 - growth.e)
        t == FlDivWide(WTimes(o.m.lo, whole), WSub(whole, one))
    IN  IF growth.e > 4 THEN r ELSE [m |-> t.m, e |-> t.e + o.e]

(* A rate k / 2^j as a fraction.                                           *)
RateAsFraction(r) ==
    LET o == OddPart(r.m, r.e)
    IN  IF o.e >= 0 THEN RInt(o.m.lo * 2^o.e) ELSE Rat(o.m.lo, 2^(0 - o.e))

TwoTo54 == [m |-> WPow2(MantBits - 1), e |-> 2]

PriceLevels == {0, 40, 2000}

NotCalled == [ok |-> FALSE, error |-> "not called"]

(* The series of length len that repeats the prefix base.                  *)
PeriodicSeries(base, len) == [i \in 1..len |-> base[((i - 1) % Len(base)) + 1]]

InitDuration ==
    /\ \E len \in 1..MaxSeries :
       \E base \in [1..(IF len < MaxPeriod THEN len ELSE MaxPeriod) -> PriceLevels] :
          marginal_price =
              [b \in {"electricity", "hydrogen"} |->
                  IF b = "electricity" THEN PeriodicSeries(base, len)
                  ELSE [i \in 1..len |-> 0]]
    /\ duration = NotCalled
    /\ notebook = "demand-elasticity" /\ pc = 0 /\ error = "none"
    /\ remote = None /\ costs = None /\ a = None /\ ts = None
    /\ capacities = None /\ ax = None /\ tsc = None /\ n = None
    /\ generators_t_p = <<>> /\ variable_supply = <<>>
    /\ p_nom_opt = <<>> /\ solved = None

CallGetPriceDuration ==
    /\ duration = NotCalled
    /\ duration' = get_price_duration(marginal_price, "electricity")
    /\ UNCHANGED <<notebook, pc, error, remote, frames, n, results>>

NextDuration == CallGetPriceDuration

SpecDuration == InitDuration /\ [][NextDuration]_vars

Count(s, v) == Cardinality({i \in 1..Len(s) : s[i] = v})

IsPercentage(x, k, len) ==
    IF k = 0 THEN x = FlZero
    ELSE /\ x.e <= -30
         /\ ~WLess(WInt(2 * len),
                   WDistance(WTimes(len, x.m), WScaled(100 * k, 0 - x.e)))

(* C2: for every series of N >= 1 prices get_price_duration returns an     *)
(* index of exactly N entries, the k-th being k * 100 / N: it starts at 0, *)
(* is strictly increasing and stays below 100.                             *)
C2_IndexIsPercentages ==
    duration # NotCalled =>
        /\ duration.ok
        /\ LET len == Len(marginal_price["electricity"])
               index == duration.index
           IN  /\ Len(index) = len
               /\ \A k \in 1..len : IsPercentage(index[k], k - 1, len)
               /\ index[1] = FlZero
               /\ \A k \in 1..(len - 1) : FlLess(index[k], index[k + 1])
               /\ \A k \in 1..len : FlLess(index[k], FlDivInt(100, WOne))

====
